---- MODULE Spec2Model ----
(***************************************************************************)
(* The two VLLMClient wrappers of localGPTvLLM                             *)
(*   backend/ollama_client.py          is_server_running, list_models,     *)
(*                                     chat, chat_stream                   *)
(*   rag_system/utils/ollama_client.py generate_embedding,                 *)
(*                                     generate_completion(_async),        *)
(*                                     stream_completion                   *)
(* as a state machine: one synchronous caller that issues the blocking and *)
(* the generator operations one after the other, a set of asyncio tasks    *)
(* running generate_completion_async, and the inference server as the      *)
(* nondeterministic environment (its answer, its silence, its failures).   *)
(*                                                                         *)
(* Text that the code inspects (response content, streamed fragments,      *)
(* error strings) is a sequence of one-character strings, so that the       *)
(* regular expressions, lower(), strip() and the f-strings are computed.   *)
(* JSON values are records (objects), sequences (arrays) and the tagged    *)
(* scalars below; a missing key is a field that is not in DOMAIN.          *)
(***************************************************************************)
EXTENDS Integers, Sequences, FiniteSets, TLC

\* ------------------------------------------------------------------ bounds
MaxPieces == 4      \* pieces per generated response text (chat post-processing)
MaxModels == 2      \* model descriptors in a /v1/models answer
MaxLines  == 3      \* server-sent lines in a streamed answer
MaxImages == 2      \* images handed to a completion call
MaxTasks  == 2      \* concurrently running generate_completion_async tasks

\* ------------------------------------------------------- program constants
LivenessTimeout   == 5      \* is_server_running: timeout=5
GenerationTimeout == 180    \* chat, chat_stream: timeout=180; async default
max_tokens        == 1024
DataPrefixLen     == 6      \* line_text[6:]
NoTimeout         == -1     \* no timeout argument: requests waits for ever
None == [none |-> TRUE]     \* Python's None, where a list may be given
List(q) == [list |-> q]     \* a Python list given for an optional argument
NoKey == "None"             \* no API key resolved

\* -------------------------------------------------------------------- text
UpperCase == <<"A","B","C","D","E","F","G","H","I","J","K","L","M",
               "N","O","P","Q","R","S","T","U","V","W","X","Y","Z">>
LowerCase == <<"a","b","c","d","e","f","g","h","i","j","k","l","m",
               "n","o","p","q","r","s","t","u","v","w","x","y","z">>

LowerChar(c) ==
  IF \E i \in 1..Len(UpperCase) : UpperCase[i] = c
  THEN LowerCase[CHOOSE i \in 1..Len(UpperCase) : UpperCase[i] = c]
  ELSE c

\* str.lower()
lower(s) == [i \in 1..Len(s) |-> LowerChar(s[i])]

Whitespace == {" ", "\n", "\t", "\r"}

\* the characters s[i..] start with pat (pat compared as given)
StartsAt(s, i, pat) ==
  /\ i >= 1
  /\ i + Len(pat) - 1 <= Len(s)
  /\ \A k \in 1..Len(pat) : s[i + k - 1] = pat[k]

\* str.startswith
startswith(s, pat) == StartsAt(s, 1, pat)

\* position of the first occurrence of pat in s at or after i, 0 when none
Find(s, i, pat) ==
  LET hits == {j \in i..Len(s) : StartsAt(s, j, pat)}
  IN  IF hits = {} THEN 0 ELSE CHOOSE j \in hits : \A k \in hits : j <= k

\* `pat in s`
Contains(s, pat) == Find(s, 1, pat) # 0

\* str.strip()
strip(s) ==
  LET keep == {i \in 1..Len(s) : s[i] \notin Whitespace}
  IN  IF keep = {} THEN <<>>
      ELSE SubSeq(s, CHOOSE i \in keep : \A k \in keep : i <= k,
                     CHOOSE i \in keep : \A k \in keep : i >= k)

RECURSIVE Concat(_)
Concat(ss) == IF ss = <<>> THEN <<>> ELSE Head(ss) \o Concat(Tail(ss))

RECURSIVE Digits(_)
\* str(n) of a natural number
Digits(n) ==
  LET d == <<"0","1","2","3","4","5","6","7","8","9">>
  IN  IF n < 10 THEN <<d[n + 1]>> ELSE Digits(n \div 10) \o <<d[(n % 10) + 1]>>

ThinkOpen     == <<"<","t","h","i","n","k",">">>
ThinkClose    == <<"<","/","t","h","i","n","k",">">>
ThinkingOpen  == <<"<","t","h","i","n","k","i","n","g",">">>
ThinkingClose == <<"<","/","t","h","i","n","k","i","n","g",">">>

RECURSIVE re_sub_case_sensitive(_, _, _)
\* mutant: the pattern without re.IGNORECASE
re_sub_case_sensitive(s, open, close) ==
  LET i == Find(s, 1, open)
      j == IF i = 0 THEN 0 ELSE Find(s, i + Len(open), close)
  IN  IF i = 0 \/ j = 0 THEN s
      ELSE SubSeq(s, 1, i - 1)
           \o re_sub_case_sensitive(SubSeq(s, j + Len(close), Len(s)), open, close)

RECURSIVE re_sub(_, _, _)
\* re.sub(r'<open>.*?<close>', '', s, flags=re.DOTALL | re.IGNORECASE):
\* one left-to-right pass; each match starts at the leftmost opening tag that
\* has a closing tag after it and ends with the first such closing tag; the
\* scan resumes after the match, on the original text.
re_sub(s, open, close) ==
  LET i == Find(lower(s), 1, open)
      j == IF i = 0 THEN 0 ELSE Find(lower(s), i + Len(open), close)
  IN  IF i = 0 \/ j = 0 THEN s
      ELSE SubSeq(s, 1, i - 1)
           \o re_sub(SubSeq(s, j + Len(close), Len(s)), open, close)

\* the cleanup of chat when enable_thinking is false
RemoveThinking(response_text) ==
  strip(re_sub(re_sub(response_text, ThinkOpen, ThinkClose),
               ThinkingOpen, ThinkingClose))


\* ------------------------------------------------------------- the server
\* What the server does with one request: refuse the connection, fail to
\* resolve, accept and never answer, or answer with a status and a body.
StatusCodes == {200, 201, 404, 500}
ErrorText   == <<"n","o">>

Answers(bodies) ==
  [net : {"answer"}, status_code : StatusCodes, body : bodies, text : {ErrorText}]
Failures == {[net |-> "refused"], [net |-> "dns"], [net |-> "silent"]}

RECURSIVE SeqsUpTo(_, _)
\* the sequences over S of length at most n
SeqsUpTo(S, n) ==
  IF n = 0 THEN {<<>>}
  ELSE LET shorter == SeqsUpTo(S, n - 1)
       IN  shorter \cup {Append(q, x) : q \in {r \in shorter : Len(r) = n - 1}, x \in S}

\* /v1/models: {data: [{id: ...}, ...]}, also without `data`, also a
\* descriptor without `id`
ModelDescriptors == {[id |-> "a"], [id |-> "b"], [object |-> "model"]}
ModelsBodies ==
  {[data |-> d] : d \in SeqsUpTo(ModelDescriptors, MaxModels)} \cup {[object |-> "list"]}

\* /v1/chat/completions and /v1/completions, not streamed
MalformedBodies ==
  {[id |-> "cmpl"], [choices |-> <<>>], [choices |-> <<[index |-> 0]>>]}
ChatBodies(Contents) ==
  {[choices |-> <<[message |-> [content |-> c]]>>] : c \in Contents} \cup MalformedBodies
TextBodies(Contents) ==
  {[choices |-> <<[text |-> c]>>] : c \in Contents} \cup MalformedBodies

\* /v1/embeddings
EmbeddingBodies ==
  { [data |-> <<[embedding |-> <<1, 2>>]>>],
    [data |-> <<[embedding |-> <<3>>], [embedding |-> <<4>>]>>],
    [data |-> <<>>],
    [object |-> "list"],
    [data |-> <<[index |-> 0]>>] }

\* response texts of the main specification
Hi      == <<"H","i">>
Example == <<"A"," ","<","t","h","i","n","k",">","s","<","/","t","h","i","n","k",">","B"," ">>
FewContents == {Hi, Example}

\* response texts of the post-processing specification: every text of at
\* most MaxPieces pieces, the documented example, and two texts in which a
\* tag is wrapped around a span
Pieces ==
  { <<"A">>, <<"\n">>, ThinkOpen, ThinkClose,
    <<"<","T","h","i","n","k","i","n","g",">">>, ThinkingClose,
    <<"<","t","h","i","n","k">>, <<">">> }
Documented ==
  <<"A","<","t","h","i","n","k",">","s","e","c","r","e","t","<","/","t","h","i","n","k",">","B">>
Wrapped1 ==
  <<"<","t","h","i","n","k">> \o ThinkingOpen \o ThinkingClose \o <<">">> \o ThinkClose
Wrapped2 ==
  <<"<">> \o ThinkOpen \o ThinkClose \o <<"t","h","i","n","k",">">> \o <<"s">> \o ThinkClose
Texts ==
  {Concat(q) : q \in SeqsUpTo(Pieces, MaxPieces)} \cup {Documented, Example, Wrapped1, Wrapped2}

\* A streamed answer: the lines iter_lines() delivers. A line is its prefix
\* and its payload, the payload either text that is no JSON document or a
\* JSON document (an object, or a value that is none).
DataPrefix == <<"d","a","t","a",":"," ">>
DoneMarker == <<"[","D","O","N","E","]">>
ThinkFragment == <<"<","T","h","i","n","k",">">>

TextLine(prefix, chars) == [prefix |-> prefix, payload |-> [t |-> "text", chars |-> chars]]
JsonLine(prefix, value) == [prefix |-> prefix, payload |-> [t |-> "json", value |-> value]]

BlankLine   == TextLine(<<>>, <<>>)
DoneLine    == TextLine(DataPrefix, DoneMarker)
GarbageLine == TextLine(DataPrefix, <<"{","o","o","p","s">>)
NoChoicesLine    == JsonLine(DataPrefix, [id |-> "x"])
EmptyChoicesLine == JsonLine(DataPrefix, [choices |-> <<>>])
NumberLine       == JsonLine(DataPrefix, [json_type |-> "number"])
ChatUrl == "/v1/chat/completions"
TextUrl == "/v1/completions"
\* an event carrying fragment c, in the shape the endpoint streams
FragmentLine(url, c) ==
  JsonLine(DataPrefix,
           IF url = ChatUrl THEN [choices |-> <<[delta |-> [content |-> c]]>>]
                            ELSE [choices |-> <<[text |-> c]>>])
Fragments == {Hi, ThinkFragment, <<>>}
StreamLines(url) ==
  {BlankLine, DoneLine, GarbageLine, NoChoicesLine, EmptyChoicesLine, NumberLine}
    \cup {FragmentLine(url, c) : c \in Fragments}

\* what the server does with a streaming request
StreamAnswers(url) ==
  [net : {"answer"}, status_code : {200}, text : {ErrorText}, body : {[object |-> "stream"]},
   lines : SeqsUpTo(StreamLines(url), MaxLines)]
    \cup [net : {"answer"}, status_code : StatusCodes \ {200}, text : {ErrorText},
          body : {[object |-> "error"]}, lines : {<<>>}]

\* ---------------------------------------------------------------- inputs
Models    == {"m1"}
Messages  == {"Hello"}
Histories == {None, List(<<>>), List(<<[role |-> "assistant", content |-> "Hey"]>>)}
Pictures  == {"red", "blue"}
ImageArgs == {None} \cup {List(q) : q \in SeqsUpTo(Pictures, MaxImages)}
ApiKeys   == {NoKey, "key"}

\* ------------------------------------------------------------------ state
VARIABLES
  config,    \* the client's base URL, API key and headers
  pc,        \* the synchronous caller: idle | done | blocked, and inside a
             \* generator: created | running | suspended
  op,        \* the operation it is in
  args,      \* the operation's arguments
  server,    \* what the server does with this call's request
  reqs,      \* the requests this call has issued
  conn,      \* the streamed response's connection: none | open | closed
  pos,       \* lines of the streamed response read so far
  at,        \* where a generator's body stands: post | iter | error
  out,       \* what a generator has yielded so far
  ret,       \* the value returned
  outcome,   \* none | returned | raised | blocked | exhausted | closed
  tasks      \* the generate_completion_async tasks

vars == <<config, pc, op, args, server, reqs, conn, pos, at, out, ret, outcome, tasks>>

\* __init__: headers
Headers(api_key) ==
  IF api_key # NoKey
  THEN [ContentType |-> "application/json", Authorization |-> <<"Bearer ", api_key>>]
  ELSE [ContentType |-> "application/json"]

\* ------------------------------------------------------------- transport
\* requests.get / requests.post: the response, or the RequestException the
\* library raises, or no return at all (a silent server and timeout=None).
Transport(req, srv) ==
  CASE srv.net = "refused" ->
         [t |-> "exc", exc |-> "ConnectionError", msg |-> <<"r","e","f","u","s","e","d">>]
    [] srv.net = "dns" ->
         [t |-> "exc", exc |-> "ConnectionError", msg |-> <<"d","n","s">>]
    [] srv.net = "silent" ->
         IF req.timeout = NoTimeout
         THEN [t |-> "blocked"]
         ELSE [t |-> "exc", exc |-> "Timeout", msg |-> <<"t","i","m","e","d"," ","o","u","t">>]
    [] OTHER ->
         [t |-> "response", status_code |-> srv.status_code, body |-> srv.body, text |-> srv.text]

Returned(v) == [outcome |-> "returned", value |-> v]
Raised(e)   == [outcome |-> "raised", exc |-> e]
Blocked     == [outcome |-> "blocked"]

\* response.raise_for_status(): HTTPError for 4xx and 5xx
raise_for_status(status_code) == status_code >= 400

\* ---------------------------------------------------- backend/ollama_client
is_server_running_request ==
  [method |-> "GET", url |-> "/v1/models", headers |-> config.headers,
   stream |-> FALSE, timeout |-> LivenessTimeout]

\* mutant: any status that is no error counts as running
is_server_running_result_ok(r) ==
  CASE r.t = "blocked" -> Blocked
    [] r.t = "exc"     -> Returned(FALSE)
    [] OTHER           -> Returned(r.status_code < 400)

is_server_running_result(r) ==
  CASE r.t = "blocked" -> Blocked
    [] r.t = "exc"     -> Returned(FALSE)
    [] OTHER           -> Returned(r.status_code = 200)

list_models_request ==
  [method |-> "GET", url |-> "/v1/models", headers |-> config.headers,
   stream |-> FALSE, timeout |-> NoTimeout]

\* mutant: the ids collected as a set, duplicates lost
list_models_result_set(r) ==
  CASE r.t = "blocked" -> Blocked
    [] r.t = "exc"     -> Returned(<<>>)
    [] OTHER ->
         IF r.status_code = 200
         THEN LET models_data == IF "data" \in DOMAIN r.body THEN r.body.data ELSE <<>>
                  first == {i \in 1..Len(models_data) :
                              \A k \in 1..(i - 1) : models_data[k] # models_data[i]}
              IN  IF \E i \in 1..Len(models_data) : "id" \notin DOMAIN models_data[i]
                  THEN Raised("KeyError")
                  ELSE Returned(SelectSeq([i \in 1..Len(models_data) |->
                                             IF i \in first THEN models_data[i].id
                                             ELSE "dup"],
                                          LAMBDA x : x # "dup"))
         ELSE Returned(<<>>)

list_models_result(r) ==
  CASE r.t = "blocked" -> Blocked
    [] r.t = "exc"     -> Returned(<<>>)
    [] OTHER ->
         IF r.status_code = 200
         THEN LET models_data == IF "data" \in DOMAIN r.body THEN r.body.data ELSE <<>>
              IN  IF \E i \in 1..Len(models_data) : "id" \notin DOMAIN models_data[i]
                  THEN Raised("KeyError")
                  ELSE Returned([i \in 1..Len(models_data) |-> models_data[i].id])
         ELSE Returned(<<>>)

chat_messages(message, conversation_history) ==
  (IF conversation_history = None THEN <<>> ELSE conversation_history.list)
    \o <<[role |-> "user", content |-> message]>>

\* mutant: the new message appended to the caller's own list
caller_history_appended(message, conversation_history) ==
  IF conversation_history = None THEN None
  ELSE List(Append(conversation_history.list, [role |-> "user", content |-> message]))

\* the caller's history object once `messages` is built: `= []` rebinds the
\* local name only and `+` builds a new list, so the object is as it was given
caller_history(message, conversation_history) == conversation_history

chat_request(message, model, conversation_history, stream) ==
  [method |-> "POST", url |-> ChatUrl, headers |-> config.headers,
   json |-> [model |-> model,
             messages |-> chat_messages(message, conversation_history),
             stream |-> stream, temperature |-> "0.7", top_p |-> "0.9"],
   stream |-> stream, timeout |-> GenerationTimeout]

\* result["choices"][0]["message"]["content"], or the fault the lookup raises
first_message_content(body) ==
  IF "choices" \notin DOMAIN body THEN Raised("KeyError")
  ELSE IF Len(body.choices) = 0 THEN Raised("IndexError")
  ELSE IF "message" \notin DOMAIN body.choices[1] THEN Raised("KeyError")
  ELSE IF "content" \notin DOMAIN body.choices[1].message THEN Raised("KeyError")
  ELSE Returned(body.choices[1].message.content)

\* mutant: the status code left out of the error string
ErrorString_no_status(status_code, text) ==
  <<"E","r","r","o","r",":"," ">> \o <<" ","-"," ">> \o text

ErrorString(status_code, text) ==
  <<"E","r","r","o","r",":"," ">> \o Digits(status_code) \o <<" ","-"," ">> \o text

ConnectionErrorString(msg) ==
  <<"C","o","n","n","e","c","t","i","o","n"," ","e","r","r","o","r",":"," ">> \o msg

chat_result(r, enable_thinking) ==
  CASE r.t = "blocked" -> Blocked
    [] r.t = "exc"     -> Returned(ConnectionErrorString(r.msg))
    [] OTHER ->
         IF r.status_code = 200
         THEN LET c == first_message_content(r.body)
              IN  IF c.outcome = "raised" THEN c
                  ELSE IF ~enable_thinking THEN Returned(RemoveThinking(c.value))
                  ELSE c
         ELSE Returned(ErrorString(r.status_code, r.text))

\* ------------------------------------------- rag_system/utils/ollama_client
generate_embedding_request(model, text) ==
  [method |-> "POST", url |-> "/v1/embeddings", headers |-> config.headers,
   json |-> [model |-> model, input |-> text],
   stream |-> FALSE, timeout |-> NoTimeout]

generate_embedding_result(r) ==
  CASE r.t = "blocked" -> Blocked
    [] r.t = "exc"     -> Returned(<<>>)
    [] OTHER ->
         IF raise_for_status(r.status_code) THEN Returned(<<>>)
         ELSE IF "data" \in DOMAIN r.body /\ Len(r.body.data) > 0
              THEN IF "embedding" \notin DOMAIN r.body.data[1]
                   THEN Raised("KeyError")
                   ELSE Returned(r.body.data[1].embedding)
              ELSE Returned(<<>>)

\* _image_to_base64: PNG bytes of the image, base64-encoded
_image_to_base64(image) == <<"base64", <<"PNG", image>>>>

\* `if images:` is false for None and for the empty list
HasImages(images) == images # None /\ Len(images.list) > 0

\* mutant: the image parts in reverse order
image_messages_reversed(prompt, images) ==
  << [role |-> "user",
      content |-> <<[type |-> "text", text |-> prompt]>>
                  \o [i \in 1..Len(images.list) |->
                        [type |-> "image_url",
                         image_url |-> [url |-> <<"data:image/png;base64,",
                                                  _image_to_base64(
                                                    images.list[Len(images.list) + 1 - i])>>]]]] >>

\* the one user message: the text part, then one image_url part per image
image_messages(prompt, images) ==
  << [role |-> "user",
      content |-> <<[type |-> "text", text |-> prompt]>>
                  \o [i \in 1..Len(images.list) |->
                        [type |-> "image_url",
                         image_url |-> [url |-> <<"data:image/png;base64,",
                                                  _image_to_base64(images.list[i])>>]]]] >>

generate_completion_request(model, prompt, images) ==
  IF HasImages(images)
  THEN [method |-> "POST", url |-> ChatUrl, headers |-> config.headers,
        json |-> [model |-> model, messages |-> image_messages(prompt, images),
                  stream |-> FALSE, max_tokens |-> max_tokens, temperature |-> "0.7"],
        stream |-> FALSE, timeout |-> NoTimeout]
  ELSE [method |-> "POST", url |-> TextUrl, headers |-> config.headers,
        json |-> [model |-> model, prompt |-> prompt,
                  stream |-> FALSE, max_tokens |-> max_tokens, temperature |-> "0.7"],
        stream |-> FALSE, timeout |-> NoTimeout]

\* result["choices"][0]["text"], or the fault the lookup raises
first_text(body) ==
  IF "choices" \notin DOMAIN body THEN Raised("KeyError")
  ELSE IF Len(body.choices) = 0 THEN Raised("IndexError")
  ELSE IF "text" \notin DOMAIN body.choices[1] THEN Raised("KeyError")
  ELSE Returned(body.choices[1].text)

\* the parse of a completion answer, after raise_for_status passed
completion_record(body, images) ==
  LET c == IF HasImages(images) THEN first_message_content(body) ELSE first_text(body)
  IN  IF c.outcome = "raised" THEN c
      ELSE Returned([response |-> c.value, done |-> TRUE])

EmptyRecord == [x \in {} |-> TRUE]

generate_completion_result(r, images) ==
  CASE r.t = "blocked" -> Blocked
    [] r.t = "exc"     -> Returned(EmptyRecord)
    [] OTHER ->
         IF raise_for_status(r.status_code) THEN Returned(EmptyRecord)
         ELSE completion_record(r.body, images)

\* ---------------------------------------------------------- the generators
Continue    == [act |-> "continue"]
Break       == [act |-> "break"]
Yield(c)    == [act |-> "yield", value |-> c]
Fault(e)    == [act |-> "raise", exc |-> e]

\* `if line:` / `if not raw_line:`
IsEmptyLine(line) ==
  line.prefix = <<>> /\ line.payload.t = "text" /\ line.payload.chars = <<>>

\* line_text after `if line_text.startswith('data: '): line_text = line_text[6:]`
unprefix(line) ==
  IF startswith(line.prefix, DataPrefix)
  THEN [line EXCEPT !.prefix = SubSeq(line.prefix, DataPrefixLen + 1, Len(line.prefix))]
  ELSE line

\* line_text.strip() == '[DONE]'
IsDone(line_text) ==
  /\ line_text.payload.t = "text"
  /\ strip(line_text.prefix \o line_text.payload.chars) = DoneMarker

\* json.loads(line_text): the document, or JSONDecodeError
json_loads(line_text) ==
  IF line_text.payload.t = "json" /\ strip(line_text.prefix) = <<>>
  THEN [ok |-> TRUE, data |-> line_text.payload.value]
  ELSE [ok |-> FALSE]

IsObject(v) == "json_type" \notin DOMAIN v

\* mutant: a line that is no JSON ends the stream
chat_stream_step_abort(line, enable_thinking) ==
  IF IsEmptyLine(line) THEN Continue
  ELSE LET line_text == unprefix(line)
       IN  IF IsDone(line_text) THEN Break
           ELSE LET j == json_loads(line_text)
                IN  IF ~j.ok THEN Break
                    ELSE IF ~IsObject(j.data) THEN Fault("TypeError")
                    ELSE IF "choices" \in DOMAIN j.data /\ Len(j.data.choices) > 0
                    THEN LET choice == j.data.choices[1]
                             delta == IF "delta" \in DOMAIN choice
                                      THEN choice.delta ELSE EmptyRecord
                             content == IF "content" \in DOMAIN delta
                                        THEN delta.content ELSE <<>>
                         IN  IF ~IsObject(choice) THEN Fault("AttributeError")
                             ELSE IF content = <<>> THEN Continue
                             ELSE IF /\ ~enable_thinking
                                     /\ \/ Contains(lower(content), ThinkOpen)
                                        \/ Contains(lower(content), ThinkingOpen)
                             THEN Continue
                             ELSE Yield(content)
                    ELSE Continue

\* mutant: the filter without .lower()
chat_stream_step_case_sensitive(line, enable_thinking) ==
  IF IsEmptyLine(line) THEN Continue
  ELSE LET line_text == unprefix(line)
       IN  IF IsDone(line_text) THEN Break
           ELSE LET j == json_loads(line_text)
                IN  IF ~j.ok THEN Continue
                    ELSE IF ~IsObject(j.data) THEN Fault("TypeError")
                    ELSE IF "choices" \in DOMAIN j.data /\ Len(j.data.choices) > 0
                    THEN LET choice == j.data.choices[1]
                             delta == IF "delta" \in DOMAIN choice
                                      THEN choice.delta ELSE EmptyRecord
                             content == IF "content" \in DOMAIN delta
                                        THEN delta.content ELSE <<>>
                         IN  IF ~IsObject(choice) THEN Fault("AttributeError")
                             ELSE IF content = <<>> THEN Continue
                             ELSE IF /\ ~enable_thinking
                                     /\ \/ Contains(content, ThinkOpen)
                                        \/ Contains(content, ThinkingOpen)
                             THEN Continue
                             ELSE Yield(content)
                    ELSE Continue

\* chat_stream: what the loop body does with one line
chat_stream_step(line, enable_thinking) ==
  IF IsEmptyLine(line) THEN Continue
  ELSE LET line_text == unprefix(line)
       IN  IF IsDone(line_text) THEN Break
           ELSE LET j == json_loads(line_text)
                IN  IF ~j.ok THEN Continue
                    ELSE IF ~IsObject(j.data) THEN Fault("TypeError")
                    ELSE IF "choices" \in DOMAIN j.data /\ Len(j.data.choices) > 0
                    THEN LET choice == j.data.choices[1]
                             delta == IF "delta" \in DOMAIN choice
                                      THEN choice.delta ELSE EmptyRecord
                             content == IF "content" \in DOMAIN delta
                                        THEN delta.content ELSE <<>>
                         IN  IF ~IsObject(choice) THEN Fault("AttributeError")
                             ELSE IF content = <<>> THEN Continue
                             ELSE IF /\ ~enable_thinking
                                     /\ \/ Contains(lower(content), ThinkOpen)
                                        \/ Contains(lower(content), ThinkingOpen)
                             THEN Continue
                             ELSE Yield(content)
                    ELSE Continue

\* stream_completion: what the loop body does with one line, on the chat
\* route (images) and on the completions route
stream_completion_step(line, images) ==
  IF IsEmptyLine(line) THEN Continue
  ELSE LET line_text == unprefix(line)
       IN  IF IsDone(line_text) THEN Break
           ELSE LET j == json_loads(line_text)
                IN  IF ~j.ok THEN Continue
                    ELSE IF ~IsObject(j.data) THEN Fault("TypeError")
                    ELSE IF "choices" \in DOMAIN j.data /\ Len(j.data.choices) > 0
                    THEN LET choice == j.data.choices[1]
                             delta == IF "delta" \in DOMAIN choice
                                      THEN choice.delta ELSE EmptyRecord
                             chunk == IF HasImages(images)
                                      THEN IF "content" \in DOMAIN delta
                                           THEN delta.content ELSE <<>>
                                      ELSE IF "text" \in DOMAIN choice
                                           THEN choice.text ELSE <<>>
                         IN  IF ~IsObject(choice) THEN Fault("AttributeError")
                             ELSE IF chunk = <<>> THEN Continue
                             ELSE Yield(chunk)
                    ELSE Continue

stream_completion_request(model, prompt, images) ==
  IF HasImages(images)
  THEN [method |-> "POST", url |-> ChatUrl, headers |-> config.headers,
        json |-> [model |-> model, messages |-> image_messages(prompt, images),
                  stream |-> TRUE, max_tokens |-> max_tokens, temperature |-> "0.7"],
        stream |-> TRUE, timeout |-> NoTimeout]
  ELSE [method |-> "POST", url |-> TextUrl, headers |-> config.headers,
        json |-> [model |-> model, prompt |-> prompt,
                  stream |-> TRUE, max_tokens |-> max_tokens, temperature |-> "0.7"],
        stream |-> TRUE, timeout |-> NoTimeout]

HTTPErrorText(status_code) == Digits(status_code) \o <<" ","E","r","r","o","r">>

\* --------------------------------------------------------------- actions
NoValue == "nothing"
NoArgs  == [x \in {} |-> TRUE]
NoServer == [net |-> "none"]

IdleTasks == [t \in 1..MaxTasks |-> [pc |-> "idle"]]

Init ==
  /\ \E k \in ApiKeys :
       config = [base_url |-> "http://localhost:8000", api_key |-> k, headers |-> Headers(k)]
  /\ pc = "idle"
  /\ op = "none"
  /\ args = NoArgs
  /\ server = NoServer
  /\ reqs = <<>>
  /\ conn = "none"
  /\ pos = 0
  /\ at = "post"
  /\ out = <<>>
  /\ ret = NoValue
  /\ outcome = "none"
  /\ tasks = IdleTasks

\* No task of the event loop is under way. The synchronous caller and the
\* event loop take turns: asyncio.run() returns when its tasks are over, and
\* a blocking call is not made while the loop runs.
LoopIdle == \A t \in 1..MaxTasks : tasks[t].pc = "idle"

\* a blocking operation, from the call to its return, its fault, or its hang
Invoke(o, a, srv, req, r) ==
  /\ pc = "idle" /\ LoopIdle
  /\ op' = o
  /\ args' = a
  /\ server' = srv
  /\ reqs' = <<req>>
  /\ pc' = IF r.outcome = "blocked" THEN "blocked" ELSE "done"
  /\ outcome' = r.outcome
  /\ ret' = CASE r.outcome = "returned" -> r.value
              [] r.outcome = "raised"   -> r.exc
              [] OTHER                  -> NoValue
  /\ UNCHANGED <<config, conn, pos, at, out, tasks>>

is_server_running ==
  /\ pc = "idle"
  /\ \E srv \in Failures \cup Answers(ModelsBodies) :
    Invoke("is_server_running", NoArgs, srv, is_server_running_request,
           is_server_running_result(Transport(is_server_running_request, srv)))

list_models ==
  /\ pc = "idle"
  /\ \E srv \in Failures \cup Answers(ModelsBodies) :
    Invoke("list_models", NoArgs, srv, list_models_request,
           list_models_result(Transport(list_models_request, srv)))

\* chat, the server answering with a content of Contents
chat_on(Contents, Given) ==
  /\ pc = "idle"
  /\ \E message \in Messages, model \in Models, conversation_history \in Given,
     enable_thinking \in BOOLEAN, srv \in Failures \cup Answers(ChatBodies(Contents)) :
    LET req == chat_request(message, model, conversation_history, FALSE)
    IN  Invoke("chat",
               [message |-> message, model |-> model,
                conversation_history |-> conversation_history,
                enable_thinking |-> enable_thinking,
                caller_history |-> caller_history(message, conversation_history)],
               srv, req, chat_result(Transport(req, srv), enable_thinking))

chat == chat_on(FewContents, Histories)

generate_embedding ==
  /\ pc = "idle"
  /\ \E model \in Models, text \in Messages, srv \in Failures \cup Answers(EmbeddingBodies) :
    LET req == generate_embedding_request(model, text)
    IN  Invoke("generate_embedding", [model |-> model, text |-> text],
               srv, req, generate_embedding_result(Transport(req, srv)))

generate_completion ==
  /\ pc = "idle"
  /\ \E model \in Models, prompt \in Messages, images \in ImageArgs,
     srv \in Failures \cup Answers(ChatBodies({Hi}) \cup TextBodies({Hi})) :
    LET req == generate_completion_request(model, prompt, images)
    IN  Invoke("generate_completion",
               [model |-> model, prompt |-> prompt, images |-> images],
               srv, req, generate_completion_result(Transport(req, srv), images))

\* ---- generators: calling one only creates it; the body runs under next()
StreamImageArgs == {None, List(<<>>), List(<<"red", "blue">>)}
StreamHistories == {None, List(<<[role |-> "assistant", content |-> "Hey"]>>)}

chat_stream ==
  /\ pc = "idle" /\ LoopIdle
  /\ \E message \in Messages, model \in Models,
        conversation_history \in StreamHistories, enable_thinking \in BOOLEAN :
       \* no line of the body has run: the caller's list is as given
       args' = [message |-> message, model |-> model,
                conversation_history |-> conversation_history,
                enable_thinking |-> enable_thinking,
                caller_history |-> conversation_history]
  /\ op' = "chat_stream"
  /\ pc' = "created"
  /\ UNCHANGED <<config, server, reqs, conn, pos, at, out, ret, outcome, tasks>>

stream_completion ==
  /\ pc = "idle" /\ LoopIdle
  /\ \E model \in Models, prompt \in Messages, images \in StreamImageArgs :
       args' = [model |-> model, prompt |-> prompt, images |-> images]
  /\ op' = "stream_completion"
  /\ pc' = "created"
  /\ UNCHANGED <<config, server, reqs, conn, pos, at, out, ret, outcome, tasks>>

\* the consumer pulls: next(generator)
Pull ==
  /\ pc \in {"created", "suspended"}
  /\ pc' = "running"
  /\ UNCHANGED <<config, op, args, server, reqs, conn, pos, at, out, ret, outcome, tasks>>

\* the generator suspends at a yield
Suspend(value, where) ==
  /\ out' = Append(out, value)
  /\ at' = where
  /\ pc' = "suspended"

\* the generator is over: it returned, or a fault left it, or it was closed
Over(how, value) ==
  /\ pc' = "done"
  /\ outcome' = how
  /\ ret' = value

\* chat_stream, from the first next() to the loop or to the error string
chat_stream_post ==
  /\ pc = "running" /\ op = "chat_stream" /\ at = "post"
  /\ \E srv \in Failures \cup StreamAnswers(ChatUrl) :
       LET req == chat_request(args.message, args.model, args.conversation_history, TRUE)
           r   == Transport(req, srv)
       IN  /\ reqs' = <<req>>
           /\ server' = srv
           /\ CASE r.t = "blocked" ->
                     /\ pc' = "blocked" /\ outcome' = "blocked"
                     /\ UNCHANGED <<conn, at, out>>
                [] r.t = "exc" ->
                     /\ Suspend(ConnectionErrorString(r.msg), "error")
                     /\ UNCHANGED <<conn, outcome>>
                [] OTHER ->
                     IF r.status_code = 200
                     THEN /\ conn' = "open"
                          /\ at' = "iter"
                          /\ UNCHANGED <<pc, out, outcome>>
                     \* response.text reads the body to its end, which hands
                     \* the connection back
                     ELSE /\ conn' = "closed"
                          /\ Suspend(ErrorString(r.status_code, r.text), "error")
                          /\ UNCHANGED outcome
  /\ args' = [args EXCEPT !.caller_history =
                 caller_history(args.message, args.conversation_history)]
  /\ UNCHANGED <<config, op, pos, ret, tasks>>

\* chat_stream, one turn of `for line in response.iter_lines()`
chat_stream_line ==
  /\ pc = "running" /\ op = "chat_stream" /\ at = "iter"
  /\ \E fails \in BOOLEAN :
       IF fails
       \* the connection breaks: iter_lines raises a RequestException, the
       \* transport has dropped the connection
       THEN /\ server' = [server EXCEPT !.net = "reset"]
            /\ conn' = "closed"
            /\ Suspend(ConnectionErrorString(<<"r","e","s","e","t">>), "error")
            /\ UNCHANGED <<pos, ret, outcome>>
       ELSE IF pos = Len(server.lines)
       \* the body is read to its end, which hands the connection back
       THEN /\ conn' = "closed"
            /\ Over("exhausted", NoValue)
            /\ UNCHANGED <<server, pos, at, out>>
       ELSE LET st == chat_stream_step(server.lines[pos + 1], args.enable_thinking)
            IN  /\ pos' = pos + 1
                /\ CASE st.act = "continue" ->
                          UNCHANGED <<pc, at, out, ret, outcome>>
                     [] st.act = "break" ->
                          /\ Over("exhausted", NoValue)
                          /\ UNCHANGED <<at, out>>
                     [] st.act = "yield" ->
                          /\ Suspend(st.value, "iter")
                          /\ UNCHANGED <<ret, outcome>>
                     [] OTHER ->
                          /\ Over("raised", st.exc)
                          /\ UNCHANGED <<at, out>>
                /\ UNCHANGED <<server, conn>>
  /\ UNCHANGED <<config, op, args, reqs, tasks>>

\* chat_stream resumed after its error string: the body ends
chat_stream_end ==
  /\ pc = "running" /\ op = "chat_stream" /\ at = "error"
  /\ Over("exhausted", NoValue)
  /\ UNCHANGED <<config, op, args, server, reqs, conn, pos, at, out, tasks>>

\* generator.close() on chat_stream: GeneratorExit at the yield, which no
\* handler of the body takes; the response is not closed
chat_stream_close ==
  /\ pc \in {"created", "suspended"} /\ op = "chat_stream"
  /\ Over("closed", NoValue)
  /\ UNCHANGED <<config, op, args, server, reqs, conn, pos, at, out, tasks>>

\* stream_completion, from the first next() to the loop or to the error string
stream_completion_post ==
  /\ pc = "running" /\ op = "stream_completion" /\ at = "post"
  /\ \E srv \in Failures \cup
                StreamAnswers(IF HasImages(args.images) THEN ChatUrl ELSE TextUrl) :
       LET req == stream_completion_request(args.model, args.prompt, args.images)
           r   == Transport(req, srv)
       IN  /\ reqs' = <<req>>
           /\ server' = srv
           /\ CASE r.t = "blocked" ->
                     /\ pc' = "blocked" /\ outcome' = "blocked"
                     /\ UNCHANGED <<conn, at, out>>
                [] r.t = "exc" ->
                     /\ Suspend(ConnectionErrorString(r.msg), "error")
                     /\ UNCHANGED <<conn, outcome>>
                [] OTHER ->
                     IF raise_for_status(r.status_code)
                     \* HTTPError leaves the `with`, which closes the response
                     THEN /\ conn' = "closed"
                          /\ Suspend(ConnectionErrorString(HTTPErrorText(r.status_code)),
                                     "error")
                          /\ UNCHANGED outcome
                     ELSE /\ conn' = "open"
                          /\ at' = "iter"
                          /\ UNCHANGED <<pc, out, outcome>>
  /\ UNCHANGED <<config, op, args, pos, ret, tasks>>

\* stream_completion, one turn of `for raw_line in resp.iter_lines()`; every
\* way out of the loop leaves the `with`, which closes the response
stream_completion_line ==
  /\ pc = "running" /\ op = "stream_completion" /\ at = "iter"
  /\ \E fails \in BOOLEAN :
       IF fails
       THEN /\ server' = [server EXCEPT !.net = "reset"]
            /\ conn' = "closed"
            /\ Suspend(ConnectionErrorString(<<"r","e","s","e","t">>), "error")
            /\ UNCHANGED <<pos, ret, outcome>>
       ELSE IF pos = Len(server.lines)
       THEN /\ conn' = "closed"
            /\ Over("exhausted", NoValue)
            /\ UNCHANGED <<server, pos, at, out>>
       ELSE LET st == stream_completion_step(server.lines[pos + 1], args.images)
            IN  /\ pos' = pos + 1
                /\ CASE st.act = "continue" ->
                          UNCHANGED <<pc, at, out, ret, outcome, conn>>
                     [] st.act = "break" ->
                          /\ conn' = "closed"
                          /\ Over("exhausted", NoValue)
                          /\ UNCHANGED <<at, out>>
                     [] st.act = "yield" ->
                          /\ Suspend(st.value, "iter")
                          /\ UNCHANGED <<ret, outcome, conn>>
                     [] OTHER ->
                          /\ conn' = "closed"
                          /\ Over("raised", st.exc)
                          /\ UNCHANGED <<at, out>>
                /\ UNCHANGED server
  /\ UNCHANGED <<config, op, args, reqs, tasks>>

\* stream_completion resumed after its error string: the body ends
stream_completion_end ==
  /\ pc = "running" /\ op = "stream_completion" /\ at = "error"
  /\ Over("exhausted", NoValue)
  /\ UNCHANGED <<config, op, args, server, reqs, conn, pos, at, out, tasks>>

\* generator.close() on stream_completion: GeneratorExit at the yield; at the
\* yield of the loop it leaves the `with`, which closes the response
stream_completion_close ==
  /\ pc \in {"created", "suspended"} /\ op = "stream_completion"
  /\ conn' = IF pc = "suspended" /\ at = "iter" THEN "closed" ELSE conn
  /\ Over("closed", NoValue)
  /\ UNCHANGED <<config, op, args, server, reqs, pos, at, out, tasks>>

\* ---- generate_completion_async, one asyncio task per call
AsyncImageArgs == {None, List(<<>>), List(<<"red", "blue">>)}
AsyncServers(url) ==
  {[net |-> "refused"], [net |-> "silent"]}
    \cup [net : {"answer"}, status_code : {200, 500}, text : {ErrorText},
          body : {IF url = ChatUrl THEN [choices |-> <<[message |-> [content |-> Hi]]>>]
                                   ELSE [choices |-> <<[text |-> Hi]>>],
                  [id |-> "cmpl"]}]

generate_completion_async_request(model, prompt, images, timeout) ==
  IF HasImages(images)
  THEN [method |-> "POST", url |-> ChatUrl, headers |-> config.headers,
        json |-> [model |-> model, messages |-> image_messages(prompt, images),
                  stream |-> FALSE, max_tokens |-> max_tokens, temperature |-> "0.7"],
        stream |-> FALSE, timeout |-> timeout]
  ELSE [method |-> "POST", url |-> TextUrl, headers |-> config.headers,
        json |-> [model |-> model, prompt |-> prompt,
                  stream |-> FALSE, max_tokens |-> max_tokens, temperature |-> "0.7"],
        stream |-> FALSE, timeout |-> timeout]

\* what the awaited post gives the body, the `async with` already left
generate_completion_async_result(r, images) ==
  CASE r.t = "blocked" -> Blocked
    [] r.t = "exc"     -> Returned(EmptyRecord)
    [] OTHER ->
         IF raise_for_status(r.status_code) THEN Returned(EmptyRecord)
         ELSE LET c == IF HasImages(images) THEN first_message_content(r.body)
                                            ELSE first_text(r.body)
              IN  IF c.outcome = "raised" THEN c
                  ELSE Returned([response |-> c.value, done |-> TRUE])

\* the call, up to `await client.post(...)`: the client is open, the request
\* is in flight
generate_completion_async(t) ==
  /\ pc = "idle"
  /\ tasks[t].pc = "idle"
  /\ \E model \in Models, prompt \in Messages, images \in AsyncImageArgs :
       tasks' = [tasks EXCEPT ![t] =
                   [pc |-> "awaiting", model |-> model, prompt |-> prompt,
                    images |-> images, client |-> "open", cancelled |-> FALSE,
                    req |-> generate_completion_async_request(
                              model, prompt, images, GenerationTimeout)]]
  /\ UNCHANGED <<config, pc, op, args, server, reqs, conn, pos, at, out, ret, outcome>>

\* the awaited post completes (an answer, or httpx's error); leaving the
\* `async with` closes the client
async_resume(t) ==
  /\ tasks[t].pc = "awaiting"
  /\ \E srv \in AsyncServers(tasks[t].req.url) :
       LET r == generate_completion_async_result(Transport(tasks[t].req, srv),
                                                 tasks[t].images)
       IN  tasks' = [tasks EXCEPT ![t] =
                       [pc |-> "done", model |-> @.model, prompt |-> @.prompt,
                        images |-> @.images, client |-> "closed",
                        cancelled |-> FALSE, req |-> @.req, server |-> srv,
                        outcome |-> r.outcome,
                        ret |-> IF r.outcome = "returned" THEN r.value
                                ELSE [exc |-> r.exc]]]
  /\ UNCHANGED <<config, pc, op, args, server, reqs, conn, pos, at, out, ret, outcome>>

\* task.cancel() while the post is awaited: CancelledError is thrown into the
\* await, leaves the `async with` (the client is closed), and is taken by
\* `except (httpx.HTTPError, asyncio.CancelledError)`, which returns {}
async_cancel(t) ==
  /\ tasks[t].pc = "awaiting"
  /\ tasks' = [tasks EXCEPT ![t] =
                  [pc |-> "done", model |-> @.model, prompt |-> @.prompt,
                   images |-> @.images, client |-> "closed",
                   cancelled |-> TRUE, req |-> @.req, server |-> NoServer,
                   outcome |-> "returned", ret |-> EmptyRecord]]
  /\ UNCHANGED <<config, pc, op, args, server, reqs, conn, pos, at, out, ret, outcome>>

\* the finished task is collected; its slot takes the next call
async_reap(t) ==
  /\ tasks[t].pc = "done"
  /\ tasks' = [tasks EXCEPT ![t] = [pc |-> "idle"]]
  /\ UNCHANGED <<config, pc, op, args, server, reqs, conn, pos, at, out, ret, outcome>>

\* the caller goes on to its next call
Return ==
  /\ pc = "done"
  /\ pc' = "idle"
  /\ op' = "none"
  /\ args' = NoArgs
  /\ server' = NoServer
  /\ reqs' = <<>>
  /\ conn' = "none"
  /\ pos' = 0
  /\ at' = "post"
  /\ out' = <<>>
  /\ ret' = NoValue
  /\ outcome' = "none"
  /\ UNCHANGED <<config, tasks>>

Next ==
  \/ is_server_running
  \/ list_models
  \/ chat
  \/ generate_embedding
  \/ generate_completion
  \/ chat_stream
  \/ chat_stream_post
  \/ chat_stream_line
  \/ chat_stream_end
  \/ chat_stream_close
  \/ stream_completion
  \/ stream_completion_post
  \/ stream_completion_line
  \/ stream_completion_end
  \/ stream_completion_close
  \/ Pull
  \/ Return
  \/ \E t \in 1..MaxTasks :
       \/ generate_completion_async(t)
       \/ async_resume(t)
       \/ async_cancel(t)
       \/ async_reap(t)

Spec == Init /\ [][Next]_vars

\* chat alone, over the response texts of Texts
NextChat ==
  \/ chat_on(Texts, {None})
  \/ Return

SpecChat == Init /\ [][NextChat]_vars

\* ================================================================ claims
StreamOps == {"chat_stream", "stream_completion"}

\* C1: the best-effort operations never raise: whatever the server does
\* (unreachable, a non-2xx status, a 2xx body of unexpected shape),
\* list_models, chat, generate_completion and generate_embedding return; and
\* generate_embedding returns the empty sequence on an answer with empty `data`.
C1_BestEffortNeverRaises ==
  /\ op \in {"list_models", "chat", "generate_completion", "generate_embedding"}
       => outcome # "raised"
  /\ ( /\ op = "generate_embedding" /\ pc = "done"
       /\ server.net = "answer" /\ server.status_code = 200
       /\ server.body = [data |-> <<>>] )
       => (outcome = "returned" /\ ret = <<>>)

\* C2: a stream that is over (exhausted, ended by [DONE], ended by an error,
\* or closed by its consumer) never has its connection still open.
C2_StreamConnectionReleased ==
  (op \in StreamOps /\ pc = "done") => conn # "open"

\* C3: every request of every operation carries a finite timeout, and no
\* operation is left waiting for ever on a server that never answers.
C3_EveryRequestHasFiniteTimeout ==
  /\ \A i \in 1..Len(reqs) : reqs[i].timeout # NoTimeout
  /\ \A t \in 1..MaxTasks : tasks[t].pc # "idle" => tasks[t].req.timeout # NoTimeout
  /\ pc # "blocked"

\* C4: a generate_completion_async task cancelled while its request is in
\* flight ends with its client closed and as a cancelled task, not as a task
\* that returned a value.
C4_CancellationTakesEffect ==
  \A t \in 1..MaxTasks :
    (tasks[t].pc = "done" /\ tasks[t].cancelled)
      => (tasks[t].client = "closed" /\ tasks[t].outcome = "cancelled")

\* C9: list_models on HTTP 200 with a `data` array of descriptors that all
\* carry `id` returns exactly their ids, in the server's order and number; on
\* a non-200 status and on a network failure it returns the empty sequence.
ValidModelsAnswer(srv) ==
  /\ srv.net = "answer" /\ srv.status_code = 200
  /\ "data" \in DOMAIN srv.body
  /\ \A i \in 1..Len(srv.body.data) : "id" \in DOMAIN srv.body.data[i]

C9_ListModelsOrder ==
  (op = "list_models" /\ pc = "done") =>
    /\ ValidModelsAnswer(server) =>
         /\ outcome = "returned"
         /\ Len(ret) = Len(server.body.data)
         /\ \A i \in 1..Len(ret) : ret[i] = server.body.data[i].id
    /\ (server.net \in {"refused", "dns"}
          \/ (server.net = "answer" /\ server.status_code # 200)) =>
         (outcome = "returned" /\ ret = <<>>)

C9_Witness ==
  /\ op = "list_models" /\ pc = "done" /\ outcome = "returned"
  /\ ValidModelsAnswer(server)
  /\ ret = <<"b", "a">>

\* C10: is_server_running always returns, never raises and never hangs; it
\* returns true exactly when the probe was answered with HTTP 200.
C10_IsServerRunning ==
  op = "is_server_running" =>
    /\ pc = "done" /\ outcome = "returned"
    /\ ret = (server.net = "answer" /\ server.status_code = 200)

C10_Witness ==
  /\ op = "is_server_running" /\ pc = "done"
  /\ server.net = "answer" /\ server.status_code = 500 /\ ret = FALSE

\* ---- C7
NumImages(images) == IF images = None THEN 0 ELSE Len(images.list)

\* the request is the one the image rule asks for
RouteOk(req, prompt, images) ==
  LET n == NumImages(images)
  IN  IF n = 0
      THEN /\ req.url = TextUrl
           /\ "messages" \notin DOMAIN req.json
           /\ "prompt" \in DOMAIN req.json /\ req.json.prompt = prompt
      ELSE /\ req.url = ChatUrl
           /\ "prompt" \notin DOMAIN req.json
           /\ "messages" \in DOMAIN req.json
           /\ Len(req.json.messages) = 1
           /\ req.json.messages[1].role = "user"
           /\ LET content == req.json.messages[1].content
              IN  /\ Len(content) = n + 1
                  /\ content[1] = [type |-> "text", text |-> prompt]
                  /\ \A i \in 1..n :
                       /\ content[i + 1].type = "image_url"
                       /\ content[i + 1].image_url.url =
                            <<"data:image/png;base64,", _image_to_base64(images.list[i])>>

\* the answer is a success of the route: 2xx, and the body of the shape the
\* route answers with
SuccessFor(srv, images) ==
  /\ srv.net = "answer" /\ srv.status_code < 400
  /\ "choices" \in DOMAIN srv.body /\ Len(srv.body.choices) > 0
  /\ IF NumImages(images) = 0
     THEN "text" \in DOMAIN srv.body.choices[1]
     ELSE "message" \in DOMAIN srv.body.choices[1]

AnswerText(srv, images) ==
  IF NumImages(images) = 0 THEN srv.body.choices[1].text
  ELSE srv.body.choices[1].message.content

ResultShape(r, text) ==
  /\ DOMAIN r = {"response", "done"}
  /\ r.done = TRUE
  /\ r.response = text

\* C7: generate_completion, generate_completion_async and stream_completion
\* send at most one request, and exactly one once their body has run: to
\* /v1/completions with the prompt when there is no image (None or []), to
\* /v1/chat/completions with one user message, the text part followed by one
\* image part per image in the order given, otherwise; and a successful answer
\* gives {response, done: true} on both routes.
C7_ImageUpgrade ==
  /\ op \in {"generate_completion", "stream_completion"} =>
       /\ Len(reqs) <= 1
       /\ reqs # <<>> => RouteOk(reqs[1], args.prompt, args.images)
  /\ op = "generate_completion" => Len(reqs) = 1
  /\ (op = "stream_completion" /\ (at # "post" \/ pc = "blocked")) => Len(reqs) = 1
  /\ (op = "generate_completion" /\ pc = "done" /\ SuccessFor(server, args.images)) =>
       /\ outcome = "returned"
       /\ ResultShape(ret, AnswerText(server, args.images))
  /\ \A t \in 1..MaxTasks :
       /\ tasks[t].pc # "idle" =>
            RouteOk(tasks[t].req, tasks[t].prompt, tasks[t].images)
       /\ (tasks[t].pc = "done" /\ ~tasks[t].cancelled
             /\ SuccessFor(tasks[t].server, tasks[t].images)) =>
            /\ tasks[t].outcome = "returned"
            /\ ResultShape(tasks[t].ret, AnswerText(tasks[t].server, tasks[t].images))

C7_Witness ==
  /\ op = "generate_completion" /\ pc = "done" /\ outcome = "returned"
  /\ args.images = List(<<"blue", "red">>)
  /\ reqs[1].url = ChatUrl
  /\ Len(reqs[1].json.messages[1].content) = 3
  /\ DOMAIN ret = {"response", "done"}

\* ---- C5, C6
ProperPrefix(l) == l.prefix = <<>> \/ l.prefix = DataPrefix
IsDoneLine(l) == ProperPrefix(l) /\ l.payload.t = "text" /\ l.payload.chars = DoneMarker
IsJsonLine(l) == ProperPrefix(l) /\ l.payload.t = "json"

\* a JSON line on which the parse faults: no object, or a first choice that
\* is no object
FaultLine(l) ==
  /\ IsJsonLine(l)
  /\ \/ "json_type" \in DOMAIN l.payload.value
     \/ /\ "choices" \in DOMAIN l.payload.value
        /\ Len(l.payload.value.choices) > 0
        /\ "json_type" \in DOMAIN l.payload.value.choices[1]

\* the content fragment of a well-formed event line, <<>> when it has none
EventFragment(l, url) ==
  IF IsJsonLine(l) /\ ~FaultLine(l)
     /\ "choices" \in DOMAIN l.payload.value /\ Len(l.payload.value.choices) > 0
  THEN LET choice == l.payload.value.choices[1]
       IN  IF url = ChatUrl
           THEN IF "delta" \in DOMAIN choice /\ "content" \in DOMAIN choice.delta
                THEN choice.delta.content ELSE <<>>
           ELSE IF "text" \in DOMAIN choice THEN choice.text ELSE <<>>
  ELSE <<>>

HasThinkOpen(f) ==
  \E i \in 1..Len(f) : StartsAt(lower(f), i, ThinkOpen) \/ StartsAt(lower(f), i, ThinkingOpen)

RECURSIVE Collect(_, _, _, _)
\* the non-empty fragments of the first n lines, in order; with drop, without
\* those that hold a thinking-tag opening marker
Collect(lines, n, url, drop) ==
  IF n = 0 THEN <<>>
  ELSE LET f == EventFragment(lines[n], url)
       IN  Collect(lines, n - 1, url, drop)
             \o (IF f # <<>> /\ ~(drop /\ HasThinkOpen(f)) THEN <<f>> ELSE <<>>)

\* index of the first line that satisfies P, Len + 1 when none does
FirstIndex(lines, P(_)) ==
  LET hits == {i \in 1..Len(lines) : P(lines[i])}
  IN  IF hits = {} THEN Len(lines) + 1 ELSE CHOOSE i \in hits : \A k \in hits : i <= k

FirstDone(lines) == FirstIndex(lines, IsDoneLine)
Stopper(l) == IsDoneLine(l) \/ FaultLine(l)
FirstStop(lines) == FirstIndex(lines, Stopper)

StreamUrl ==
  IF op = "chat_stream" \/ HasImages(args.images) THEN ChatUrl ELSE TextUrl
DropsThinking == op = "chat_stream" /\ ~args.enable_thinking

\* a stream on HTTP 200 that the network has not broken
Streaming200 ==
  /\ op \in StreamOps
  /\ server.net = "answer"
  /\ server.status_code = 200

StreamOver == pc = "done" /\ outcome \in {"exhausted", "raised"}

C6_OnlyTheErrorString ==
  (op = "chat_stream" /\ at = "error") => Len(out) = 1

StatusText(status_code) ==
  CASE status_code = 201 -> <<"2","0","1">>
    [] status_code = 404 -> <<"4","0","4">>
    [] status_code = 500 -> <<"5","0","0">>

ConnectionErrorPrefix ==
  <<"C","o","n","n","e","c","t","i","o","n"," ","e","r","r","o","r",":"," ">>

\* C6 as amended: on a non-200 status or a network failure chat_stream yields
\* one formatted error string and nothing after it; the error string is the
\* whole sequence when the failure precedes the stream (a non-200 status, a
\* failed request), and follows the fragments already yielded when the
\* connection breaks while streaming.
C6_ErrorStringLast ==
  (op = "chat_stream" /\ at = "error") =>
    /\ Len(out) >= 1
    /\ server.net = "answer" =>
         /\ server.status_code # 200
         /\ out = << <<"E","r","r","o","r",":"," ">> \o StatusText(server.status_code)
                      \o <<" ","-"," ">> \o server.text >>
    /\ server.net \in {"refused", "dns", "silent"} =>
         /\ Len(out) = 1
         /\ StartsAt(out[1], 1, ConnectionErrorPrefix)
    /\ server.net = "reset" =>
         /\ StartsAt(out[Len(out)], 1, ConnectionErrorPrefix)
         /\ SubSeq(out, 1, Len(out) - 1)
              = Collect(server.lines, pos, ChatUrl, DropsThinking)

C6_Witness ==
  /\ op = "chat_stream" /\ at = "error" /\ pc = "done"
  /\ server.net = "reset"
  /\ Len(out) = 2 /\ out[1] = Hi

\* ---- C8
ChatAnswered ==
  /\ op = "chat" /\ pc = "done"
  /\ server.net = "answer" /\ server.status_code = 200
  /\ "choices" \in DOMAIN server.body /\ Len(server.body.choices) > 0
  /\ "message" \in DOMAIN server.body.choices[1]

ChatContent == server.body.choices[1].message.content

\* s holds a complete <think>...</think> or <thinking>...</thinking> span
\* (its first opening marker has a closing marker after it)
SpanOf(ls, open, close) ==
  LET i == Find(ls, 1, open)
  IN  i # 0 /\ Find(ls, i + Len(open), close) # 0

HasSpan(s) ==
  LET ls == lower(s)
  IN  SpanOf(ls, ThinkOpen, ThinkClose) \/ SpanOf(ls, ThinkingOpen, ThinkingClose)

TagMarkers == {ThinkOpen, ThinkClose, ThinkingOpen, ThinkingClose}

\* every "<" of s opens a whole tag marker and every ">" closes one
TagAtomic(s) ==
  LET ls == lower(s)
  IN  \A i \in 1..Len(s) :
        /\ s[i] = "<" => \E m \in TagMarkers : StartsAt(ls, i, m)
        /\ s[i] = ">" => \E m \in TagMarkers : StartsAt(ls, i - Len(m) + 1, m)

Trimmed(s) == s = <<>> \/ (s[1] \notin Whitespace /\ s[Len(s)] \notin Whitespace)

\* C8 as claimed: with enable_thinking false the string chat returns holds no
\* complete thinking-tag span.
C8_NoSpanLeft ==
  (ChatAnswered /\ ~args.enable_thinking) => ~HasSpan(ret)

\* C8 as amended: on HTTP 200 chat returns the first choice's content
\* unchanged with enable_thinking true; with enable_thinking false it returns
\* the content after one pass that removes the <think> spans and one that
\* removes the <thinking> spans, trimmed: a content without a span is only
\* trimmed, "A<think>secret</think>B" becomes "AB", and the result holds no
\* complete span when every "<" and ">" of the content belongs to a whole tag
\* marker (a span that only the removal puts together stays).
C8_ThinkingRemoved ==
  ChatAnswered =>
    /\ outcome = "returned"
    /\ args.enable_thinking => ret = ChatContent
    /\ ~args.enable_thinking =>
         /\ Trimmed(ret)
         /\ Len(ret) <= Len(ChatContent)
         /\ ~HasSpan(ChatContent) => ret = strip(ChatContent)
         /\ TagAtomic(ChatContent) => ~HasSpan(ret)
         /\ ChatContent = Documented => ret = <<"A", "B">>

C8_Witness ==
  /\ ChatAnswered /\ ~args.enable_thinking
  /\ ChatContent = Documented
  /\ ret = <<"A", "B">>

\* ---- C11
GivenHistory == IF args.conversation_history = None THEN <<>>
                ELSE args.conversation_history.list

\* the messages of a chat request: the history given, then the new user message
HistoryThenMessage(req) ==
  LET messages == req.json.messages
  IN  /\ Len(messages) = Len(GivenHistory) + 1
      /\ SubSeq(messages, 1, Len(GivenHistory)) = GivenHistory
      /\ messages[Len(messages)] = [role |-> "user", content |-> args.message]

FinishedTasks == {t \in 1..MaxTasks : tasks[t].pc = "done"}

\* two finished tasks given the same arguments, the same answer and the same
\* cancellation have the same result
SameCallSameResult ==
  \A t1 \in FinishedTasks, t2 \in FinishedTasks :
    ( /\ tasks[t1].model = tasks[t2].model
      /\ tasks[t1].prompt = tasks[t2].prompt
      /\ tasks[t1].images = tasks[t2].images
      /\ tasks[t1].server = tasks[t2].server
      /\ tasks[t1].cancelled = tasks[t2].cancelled )
      => ( /\ tasks[t1].outcome = tasks[t2].outcome
           /\ tasks[t1].ret = tasks[t2].ret
           /\ tasks[t1].req = tasks[t2].req )

C11_Stateless ==
  /\ config.base_url = "http://localhost:8000"
  /\ config.headers = Headers(config.api_key)
  /\ \A i \in 1..Len(reqs) : reqs[i].headers = config.headers
  /\ \A t \in 1..MaxTasks : tasks[t].pc # "idle" => tasks[t].req.headers = config.headers
  /\ op \in {"chat", "chat_stream"} =>
       /\ args.caller_history = args.conversation_history
       /\ \A i \in 1..Len(reqs) : HistoryThenMessage(reqs[i])
       /\ (op = "chat" \/ at # "post") => Len(reqs) = 1
  /\ SameCallSameResult

\* no step changes the configuration, and no step of one call changes what
\* another call was given or has returned
C11_Independent ==
  /\ config' = config
  /\ \A t \in 1..MaxTasks :
       (tasks[t].pc = "done" /\ tasks'[t].pc = "done") => tasks'[t] = tasks[t]
  /\ \A t \in 1..MaxTasks :
       (tasks[t].pc = "awaiting" /\ tasks'[t].pc # "idle") =>
         /\ tasks'[t].model = tasks[t].model
         /\ tasks'[t].prompt = tasks[t].prompt
         /\ tasks'[t].images = tasks[t].images
         /\ tasks'[t].req = tasks[t].req
  /\ tasks' # tasks => <<op, args, server, reqs, out, ret, outcome>>' =
                         <<op, args, server, reqs, out, ret, outcome>>
  /\ (op \in {"chat", "chat_stream"} /\ op' = op) =>
       /\ args'.caller_history = args.caller_history
       /\ args'.conversation_history = args.conversation_history

\* C11: the client is stateless and calls are independent: the configuration
\* (base URL, API key, headers) never changes and every request carries it;
\* chat and chat_stream leave the caller's history as given and send it
\* followed by the new user message as the last entry, in one request; under
\* any interleaving of generate_completion_async tasks a step of one task
\* leaves the arguments and the result of the others alone, and tasks given
\* the same arguments and the same answer have the same result.
C11_StatelessAndIndependent == [](C11_Stateless) /\ [][C11_Independent]_vars

C11_Witness ==
  /\ op = "chat_stream" /\ pc = "suspended" /\ out = <<Hi>>
  /\ args.conversation_history = List(<<[role |-> "assistant", content |-> "Hey"]>>)
  /\ args.caller_history = args.conversation_history
  /\ Len(reqs[1].json.messages) = 2
  /\ reqs[1].json.messages[2] = [role |-> "user", content |-> "Hello"]

\* ---- C12
\* a 200 stream of chat_stream, as far as its fragments go
ChatStreaming ==
  /\ op = "chat_stream" /\ at = "iter"
  /\ server.net = "answer" /\ server.status_code = 200

\* with enable_thinking false nothing forwarded holds an opening marker
C12_NoOpenerForwarded ==
  (ChatStreaming /\ ~args.enable_thinking) =>
    \A i \in 1..Len(out) : ~HasThinkOpen(out[i])

\* what reading one line adds to the output depends on that line alone
C12_FilterStep ==
  (ChatStreaming /\ pos' = pos + 1) =>
    LET f == EventFragment(server.lines[pos + 1], ChatUrl)
        dropped == ~args.enable_thinking /\ HasThinkOpen(f)
    IN  out' = IF f # <<>> /\ ~dropped THEN Append(out, f) ELSE out

\* C12: chat_stream with enable_thinking false drops every fragment that holds
\* a thinking-tag opening marker (<think> or <thinking>, in any case) and
\* forwards every other non-empty fragment it reads, unchanged and in order;
\* with enable_thinking true it forwards every non-empty fragment it reads.
\* The filter looks at the fragment in hand only: what was dropped before has
\* no effect on the fragments that follow.
C12_FragmentFilter == [](C12_NoOpenerForwarded) /\ [][C12_FilterStep]_vars

C12_Witness ==
  /\ ChatStreaming /\ ~args.enable_thinking /\ pc = "suspended"
  /\ pos = 2
  /\ server.lines[1] = FragmentLine(ChatUrl, ThinkFragment)
  /\ server.lines[2] = FragmentLine(ChatUrl, Hi)
  /\ out = <<Hi>>

\* ---- C13
\* a line that parses as JSON and has not the shape of an event: a value that
\* is no object, an object without `choices` or with empty `choices`, a first
\* choice that is no object
MalformedLine(l) ==
  /\ IsJsonLine(l)
  /\ \/ FaultLine(l)
     \/ "choices" \notin DOMAIN l.payload.value
     \/ Len(l.payload.value.choices) = 0

FirstMalformed(lines) == FirstIndex(lines, MalformedLine)

\* C13: once a 200 stream has read a line of unexpected shape it is over, it
\* has ended without a fault reaching the consumer, and it has yielded the
\* fragments of the lines before that line and none of a later line.
C13_MalformedTruncates ==
  (Streaming200 /\ pos >= FirstMalformed(server.lines)) =>
    /\ pc = "done"
    /\ outcome = "exhausted"
    /\ pos = FirstMalformed(server.lines)
    /\ out = Collect(server.lines, FirstMalformed(server.lines) - 1,
                     StreamUrl, DropsThinking)

====
